---- MODULE Spec2Model ----
(***************************************************************************)
(* Model of src/worker/claude-wrapper.py: a command-line wrapper that      *)
(* keeps a conversation log in one JSON session file and forwards the      *)
(* trailing window of that log to a remote chat API.                       *)
(*                                                                         *)
(* A text is a sequence of characters.  Command-line arguments are TLA+    *)
(* strings: a flag is one token, a word is one character, so that          *)
(* ' '.join(args) of the words is a text.                                  *)
(***************************************************************************)
EXTENDS Integers, Sequences, FiniteSets, TLC

VARIABLES session_file, wrapper, runs

vars == <<session_file, wrapper, runs>>

\* Bounds of the model.
MaxRuns == 3
MaxInitTurns == 5

\* Program constants.
WindowSize == 10

Procs == {1, 2}

None == "None"

Min(a, b) == IF a < b THEN a ELSE b
Max(a, b) == IF a > b THEN a ELSE b

-----------------------------------------------------------------------------
(* Strings *)

Whitespace == {" "}

RECURSIVE lstrip(_)
lstrip(s) ==
    IF s = <<>> THEN s
    ELSE IF Head(s) \in Whitespace THEN lstrip(Tail(s)) ELSE s

RECURSIVE rstrip(_)
rstrip(s) ==
    IF s = <<>> THEN s
    ELSE IF s[Len(s)] \in Whitespace THEN rstrip(SubSeq(s, 1, Len(s) - 1)) ELSE s

\* str.strip()
strip(s) == rstrip(lstrip(s))

\* ' '.join(args)
RECURSIVE join(_)
join(a) ==
    IF a = <<>> THEN <<>>
    ELSE IF Len(a) = 1 THEN <<a[1]>>
    ELSE <<a[1], " ">> \o join(Tail(a))

\* x in args
In(x, a) == \E i \in 1..Len(a) : a[i] = x

\* args.remove(x): drops the first occurrence of x
RECURSIVE remove(_, _)
remove(a, x) ==
    IF a = <<>> THEN a
    ELSE IF Head(a) = x THEN Tail(a)
    ELSE <<Head(a)>> \o remove(Tail(a), x)

\* response_text += text over the fragments of a stream
RECURSIVE concat(_)
concat(frags) ==
    IF frags = <<>> THEN <<>> ELSE Head(frags) \o concat(Tail(frags))

-----------------------------------------------------------------------------
(* JSON values and the session file *)

Msg(role, content) == [role |-> role, content |-> content]
List(items) == [t |-> "list", items |-> items]
Dict(n) == [t |-> "dict", n |-> n]      \* an object with n keys, none a message
Number(n) == [t |-> "int", n |-> n]
Invalid == [t |-> "invalid"]            \* what text that json.load rejects holds

IsList(v) == v.t = "list"
IsMsg(x) == DOMAIN x = {"role", "content"}

\* bool(v)
Truthy(v) == IF IsList(v) THEN v.items # <<>> ELSE v.n # 0

\* Number of characters json.dump writes for a value.
RoleLen(role) == IF role = "user" THEN 4 ELSE 9

RECURSIVE ItemsSize(_)
ItemsSize(items) ==
    IF items = <<>> THEN 0
    ELSE (IF IsMsg(Head(items))
            THEN 27 + RoleLen(Head(items).role) + Len(Head(items).content)
            ELSE 1)
         + (IF Len(items) > 1 THEN 2 ELSE 0)
         + ItemsSize(Tail(items))

JsonSize(v) ==
    IF IsList(v) THEN 2 + ItemsSize(v.items)
    ELSE IF v.t = "dict" THEN (IF v.n = 0 THEN 2 ELSE 8 * v.n)
    ELSE 1

\* The session file: absent, or text of some size that json.load either
\* rejects (json = Invalid) or parses to the value json.
Absent == [exists |-> FALSE, size |-> 0, json |-> Invalid]
Text(n) == [exists |-> TRUE, size |-> n, json |-> Invalid]
Truncated == Text(0)

\* json.dump(value, f) into an empty file
dumps(v) == [exists |-> TRUE, size |-> JsonSize(v), json |-> v]

\* The starting log of k complete turns.
RECURSIVE Turns(_)
Turns(k) ==
    IF k = 0 THEN <<>>
    ELSE Turns(k - 1) \o <<Msg("user", <<"h">>), Msg("assistant", <<"r">>)>>

\* Overlay as it would be if every write landed at the end of the file.
OverlayAtEnd(cur, new) ==
    IF cur.size = 0 THEN new ELSE Text(cur.size + new.size)

\* Writing the text of new from offset 0 into a file that holds cur: the
\* file was truncated when it was opened, not when it is written.
Overlay(cur, new) == IF new.size >= cur.size THEN new ELSE Text(cur.size)

-----------------------------------------------------------------------------
(* Inputs of an invocation *)

Envs ==
    [CLAUDE_API_KEY : {None, "sk"}, ANTHROPIC_API_KEY : {None, "sk"},
     MAX_TOKENS : {None, "8192", "abc"}]

ArgLists ==
    { <<>>, <<"--help">>, <<"-h">>, <<"--version">>, <<"-v">>, <<"--clear">>,
      <<"--continue">>, <<"--resume">>, <<"--clear", "--continue">>,
      <<"--stream">>, <<"h">>, <<" ">>, <<"h", "h">>, <<"--stream", "h">> }

StdinTexts == { <<>>, <<" ">>, <<" ", "p", " ">> }

\* What the remote API does with a request: it raises, or it answers with
\* a list of text blocks (the fragments of a stream).
Responses ==
    { [ok |-> FALSE, content |-> <<>>],
      [ok |-> TRUE, content |-> <<>>],
      [ok |-> TRUE, content |-> << <<"r">> >>] }

InitFiles ==
    {Absent, Text(5), dumps(Dict(0)), dumps(Dict(1)), dumps(Number(0)),
     dumps(Number(7)), dumps(List(<<Number(1)>>))}
    \cup {dumps(List(Turns(k))) : k \in 0..MaxInitTurns}

-----------------------------------------------------------------------------
(* One invocation: main() *)

\* A process that has not started.  The fields are the attributes of the
\* ClaudeWrapper object and the locals of its methods that outlive a step
\* (client, model and max_tokens are only handed to the API and are left
\* out); no_key, file0, loaded, calls, file_ops and stdin_read record what
\* the invocation was given, saw and did.
Idle ==
    [pc |-> "idle", api_key |-> None, no_key |-> FALSE,
     conversation_history |-> List(<<>>), args |-> <<>>,
     isatty |-> TRUE, stream |-> FALSE, message |-> <<>>, messages |-> <<>>,
     response_text |-> <<>>, caller |-> "none",
     ended |-> "running", exit_code |-> 0, exc |-> "none",
     file0 |-> Absent, loaded |-> List(<<>>), calls |-> 0, file_ops |-> 0,
     stdin_read |-> FALSE]

\* The function returns and main() ends: exit code 0.
Return(self) == [self EXCEPT !.pc = "done", !.ended = "returned", !.exit_code = 0]

\* sys.exit(1)
Exit1(self, e) ==
    [self EXCEPT !.pc = "done", !.ended = "sys.exit", !.exit_code = 1, !.exc = e]

\* An exception nothing catches: a traceback, and the interpreter exits 1.
Traceback(self, e) ==
    [self EXCEPT !.pc = "done", !.ended = "traceback", !.exit_code = 1, !.exc = e]

\* a or b
Or(a, b) == IF a # None THEN a ELSE b

\* os.environ.get(k, default)
Get(v, default) == IF v # None THEN v ELSE default

\* The strings int() accepts
IntLiterals == {"4096", "8192"}

\* api_key_of with a built-in key to fall back on.
api_key_or_default(env) ==
    Or(Or(env.CLAUDE_API_KEY, env.ANTHROPIC_API_KEY), "sk")

api_key_of(env) == Or(env.CLAUDE_API_KEY, env.ANTHROPIC_API_KEY)

\* load_session: the history a file yields
load_session(f) ==
    IF ~f.exists THEN List(<<>>)
    ELSE IF f.json = Invalid THEN List(<<>>)
    ELSE f.json

\* Window as conversation_history[:10] would be.
WindowHead(h) == SubSeq(h, 1, Min(Len(h), WindowSize))

\* conversation_history[-10:]
Window(h) == SubSeq(h, Max(1, Len(h) - WindowSize + 1), Len(h))

\* ClaudeWrapper(): __init__, which ends by loading the session.
ClaudeWrapper(p) ==
    /\ \E env \in Envs :
         LET self == [Idle EXCEPT !.api_key = api_key_of(env),
                                  !.no_key = (env.CLAUDE_API_KEY = None
                                              /\ env.ANTHROPIC_API_KEY = None),
                                  !.file0 = session_file]
         IN  wrapper' = [wrapper EXCEPT ![p] =
               IF self.api_key = None THEN Exit1(self, "none")
               ELSE IF Get(env.MAX_TOKENS, "4096") \notin IntLiterals
                 THEN Traceback(self, "ValueError")
               ELSE [self EXCEPT !.pc = "cmd",
                                 !.conversation_history = load_session(session_file),
                                 !.loaded = load_session(session_file),
                                 !.file_ops = 1]]
    /\ runs' = runs + 1
    /\ UNCHANGED session_file

\* --continue / --resume: prints the last two messages of the history.
resume(self) ==
    LET h == self.conversation_history IN
    IF ~Truthy(h) THEN Return(self)
    ELSE IF ~IsList(h) THEN Traceback(self, "TypeError")    \* h[-2:] of a dict or a number
    ELSE IF \E i \in Max(1, Len(h.items) - 1)..Len(h.items) : ~IsMsg(h.items[i])
      THEN Traceback(self, "TypeError")
    ELSE Return(self)

\* The end of handle_command: --stream, the message, and the call of chat.
read_message(self, stdin) ==
    LET stream == In("--stream", self.args)
        args == IF stream THEN remove(self.args, "--stream") ELSE self.args
        message == IF ~self.isatty THEN strip(stdin)
                   ELSE IF args # <<>> THEN join(args)
                   ELSE strip(stdin)
        s == [self EXCEPT !.stream = stream, !.args = args, !.message = message,
                          !.stdin_read = ~self.isatty \/ args = <<>>]
    IN  IF message # <<>> THEN [s EXCEPT !.pc = "chat"] ELSE Return(s)

handle_command(p) ==
    /\ wrapper[p].pc = "cmd"
    /\ \E argv \in ArgLists, tty \in BOOLEAN, stdin \in StdinTexts :
         LET self == [wrapper[p] EXCEPT !.args = argv, !.isatty = tty]
         IN  wrapper' = [wrapper EXCEPT ![p] =
               IF In("--help", argv) \/ In("-h", argv) THEN Return(self)
               ELSE IF In("--version", argv) \/ In("-v", argv) THEN Return(self)
               ELSE IF In("--clear", argv)
                 THEN [self EXCEPT !.conversation_history = List(<<>>),
                                   !.pc = "save", !.caller = "handle_command"]
               ELSE IF In("--continue", argv) \/ In("--resume", argv) THEN resume(self)
               ELSE read_message(self, stdin)]
    /\ UNCHANGED <<session_file, runs>>

\* chat as it would be if it saved the session right after the append.
chat_saving_early(p) ==
    LET self == wrapper[p]
        h == self.conversation_history
    IN  /\ self.pc = "chat"
        /\ IF ~IsList(h)
             THEN /\ wrapper' = [wrapper EXCEPT ![p] = Exit1(self, "AttributeError")]
                  /\ UNCHANGED session_file
             ELSE LET items == Append(h.items, Msg("user", self.message))
                  IN  /\ wrapper' = [wrapper EXCEPT ![p] =
                            [self EXCEPT !.conversation_history = List(items),
                                         !.messages = Window(items),
                                         !.calls = self.calls + 1,
                                         !.file_ops = self.file_ops + 1,
                                         !.pc = "awaiting-response"]]
                      /\ session_file' = dumps(List(items))
        /\ UNCHANGED runs

\* chat, up to the request: append the user message, take the window, call.
chat(p) ==
    LET self == wrapper[p]
        h == self.conversation_history
    IN  /\ self.pc = "chat"
        /\ wrapper' = [wrapper EXCEPT ![p] =
              IF ~IsList(h) THEN Exit1(self, "AttributeError")
              ELSE LET items == Append(h.items, Msg("user", self.message))
                   IN  [self EXCEPT !.conversation_history = List(items),
                                    !.messages = Window(items),
                                    !.calls = self.calls + 1,
                                    !.pc = "awaiting-response"]]
        /\ UNCHANGED <<session_file, runs>>

\* chat, from the answer of the remote API to the call of save_session.
chat_response(p) ==
    LET self == wrapper[p]
        h == self.conversation_history
        reply(text) ==
            [self EXCEPT !.response_text = text,
                         !.conversation_history =
                             List(Append(h.items, Msg("assistant", text))),
                         !.pc = "save", !.caller = "chat"]
    IN  /\ self.pc = "awaiting-response"
        /\ \E r \in Responses :
             wrapper' = [wrapper EXCEPT ![p] =
               IF ~r.ok THEN Exit1(self, "APIError")
               ELSE IF self.stream THEN reply(concat(r.content))
               ELSE IF r.content = <<>> THEN Exit1(self, "IndexError")
               ELSE reply(r.content[1])]
        /\ UNCHANGED <<session_file, runs>>

\* The document as it would be if only the window were saved.
document_of_window(self) == dumps(List(Window(self.conversation_history.items)))

\* json.dump(self.conversation_history, f): the document save_session writes
document(self) == dumps(self.conversation_history)

\* An OSError inside save_session: chat catches it, --clear does not.
save_failed(self) ==
    IF self.caller = "chat" THEN Exit1(self, "OSError") ELSE Traceback(self, "OSError")

\* save_session: os.makedirs and open(session_file, 'w'), which truncates.
save_session_open(p) ==
    LET self == wrapper[p]
    IN  /\ self.pc = "save"
        /\ \/ /\ wrapper' = [wrapper EXCEPT ![p] = save_failed(self)]
              /\ UNCHANGED session_file
           \/ /\ wrapper' = [wrapper EXCEPT ![p] =
                    [self EXCEPT !.pc = "dump", !.file_ops = self.file_ops + 1]]
              /\ session_file' = Truncated
        /\ UNCHANGED runs

\* save_session: json.dump and the close of the file.  A write that fails
\* leaves the file as it is at that moment.
save_session_dump(p) ==
    LET self == wrapper[p]
    IN  /\ self.pc = "dump"
        /\ \/ /\ wrapper' = [wrapper EXCEPT ![p] = save_failed(self)]
              /\ UNCHANGED session_file
           \/ /\ wrapper' = [wrapper EXCEPT ![p] = Return(self)]
              /\ session_file' = Overlay(session_file, document(self))
        /\ UNCHANGED runs

-----------------------------------------------------------------------------
(* Specifications *)

Init ==
    /\ session_file \in InitFiles
    /\ wrapper = [p \in Procs |-> Idle]
    /\ runs = 0

Finished(p) == wrapper[p].pc \in {"idle", "done"}

\* One invocation after the other.
main ==
    /\ runs < MaxRuns
    /\ \A q \in Procs : Finished(q)
    /\ ClaudeWrapper(1)

\* Each process is one invocation; they run at the same time.
main_concurrent(p) ==
    /\ wrapper[p].pc = "idle"
    /\ ClaudeWrapper(p)

Step(p) ==
    \/ handle_command(p)
    \/ chat(p)
    \/ chat_response(p)
    \/ save_session_open(p)
    \/ save_session_dump(p)

Next == main \/ \E p \in Procs : Step(p)

Spec == Init /\ [][Next]_vars

NextConcurrent == \E p \in Procs : main_concurrent(p) \/ Step(p)

SpecConcurrent == Init /\ [][NextConcurrent]_vars

-----------------------------------------------------------------------------
(* Properties *)

user(text) == Msg("user", text)
assistant(text) == Msg("assistant", text)

\* The invocation reached chat.
InChat(self) == self.message # <<>>

\* The invocation ended with a completed chat turn.
Succeeded(self) == self.pc = "done" /\ InChat(self) /\ self.exit_code = 0

\* The log of the invocation after a completed turn, from what it loaded.
TurnLog(self) ==
    self.loaded.items \o <<user(self.message), assistant(self.response_text)>>

IsLog(v) == IsList(v) /\ \A i \in 1..Len(v.items) : IsMsg(v.items[i])

\* A file that exists and does not hold a list of messages.
Malformed(f) == f.exists /\ ~IsLog(f.json)

Alternates(s) == \A i \in 1..(Len(s) - 1) : s[i].role # s[i + 1].role

\* A file as complete turns leave it: absent, empty, or user and assistant
\* messages in turn, the first a user's and the last an assistant's.
WellFormed(f) ==
    \/ ~f.exists
    \/ f = Truncated
    \/ /\ IsLog(f.json)
       /\ Len(f.json.items) % 2 = 0
       /\ Alternates(f.json.items)
       /\ f.json.items # <<>> => f.json.items[1].role = "user"

CommandFlags == {"--help", "-h", "--version", "-v", "--clear", "--continue", "--resume"}
HasCommand(a) == \E i \in 1..Len(a) : a[i] \in CommandFlags

\* C1: the list sent to the API has at most 10 entries, is the trailing
\* min(10, n) entries of the log with the user message appended, in order,
\* and ends with that user message.
C1_WindowIsTrailingTen ==
    \A p \in Procs :
        LET self == wrapper[p]
            log == self.loaded.items \o <<user(self.message)>>
            w == self.messages
        IN  self.calls > 0 =>
              /\ Len(w) <= 10
              /\ Len(w) = Min(10, Len(log))
              /\ \A i \in 1..Len(w) : w[i] = log[Len(log) - Len(w) + i]
              /\ w[Len(w)] = user(self.message)

\* A request built from a log that already held more than 10 entries.
C1_Witness ==
    \E p \in Procs :
        wrapper[p].calls > 0 /\ Len(wrapper[p].loaded.items) > 10

C3_TwoAppended ==
    \A p \in Procs :
        LET self == wrapper[p]
        IN  Succeeded(self) =>
              /\ session_file.exists
              /\ IsList(session_file.json)
              /\ Len(session_file.json.items) = Len(self.loaded.items) + 2
              /\ session_file.json.items = TurnLog(self)

\* A log of 10 entries that became one of 12.
C3_Witness ==
    \E p \in Procs :
        /\ Succeeded(wrapper[p])
        /\ IsLog(wrapper[p].file0.json)
        /\ Len(wrapper[p].file0.json.items) = 10
        /\ Len(session_file.json.items) = 12

\* C4: a session file that is not a list of messages loads as the empty
\* log, and nothing later in the invocation fails because of it.
C4_MalformedLoadsEmpty ==
    \A p \in Procs :
        LET self == wrapper[p]
        IN  self.file_ops > 0 /\ Malformed(self.file0) =>
              /\ self.loaded = List(<<>>)
              /\ self.exc \notin {"TypeError", "AttributeError"}

\* C5: with neither credential variable set the invocation exits 1 with no
\* network call and without touching the session file.
C5_NoKeyExitsUntouched ==
    \A p \in Procs :
        LET self == wrapper[p]
        IN  self.pc # "idle" /\ self.no_key =>
              /\ self.pc = "done"
              /\ self.ended = "sys.exit"
              /\ self.exit_code = 1
              /\ self.calls = 0
              /\ self.file_ops = 0
              /\ session_file = self.file0

\* An invocation without a key that ended while a log was on disk.
C5_Witness ==
    \E p \in Procs :
        /\ wrapper[p].pc = "done" /\ wrapper[p].no_key
        /\ wrapper[p].file0.exists /\ wrapper[p].file0.size > 2

\* C6: with no command flag and positional arguments left, the message is
\* the arguments joined by spaces and the input stream is not read.
C6_ArgumentsAreTheMessage ==
    \A p \in Procs :
        LET self == wrapper[p]
        IN  /\ self.pc \notin {"idle", "cmd"}
            /\ ~HasCommand(self.args)
            /\ self.args # <<>>
            => self.message = join(self.args) /\ ~self.stdin_read

\* C7: an invocation ends by returning (exit 0) or by sys.exit(1); the exit
\* code is 1 exactly when no credential is set or chat caught an error, and
\* 0 for help, version, clear and resume.
C7_ExitCodes ==
    \A p \in Procs :
        LET self == wrapper[p]
        IN  self.pc = "done" =>
              /\ self.ended \in {"returned", "sys.exit"}
              /\ self.exit_code = 1 <=>
                    (self.no_key \/ (InChat(self) /\ self.ended = "sys.exit"))
              /\ HasCommand(self.args) => self.exit_code = 0

\* C8: chat is entered only with a message that is not empty once stripped.
C8_MessageNotBlank ==
    \A p \in Procs :
        LET self == wrapper[p]
        IN  (InChat(self) \/ self.calls > 0) => strip(self.message) # <<>>

\* C9: when two invocations that loaded the same log both complete a chat,
\* the file does not hold both turns: it holds the log of one of them, the
\* loaded log and that one turn, or the unparsable mix of two writes of
\* different sizes.
C9_OneTurnSurvives ==
    \A p, q \in Procs :
        LET a == wrapper[p]
            b == wrapper[q]
        IN  p # q /\ Succeeded(a) /\ Succeeded(b) /\ a.loaded = b.loaded =>
              /\ \/ session_file = dumps(List(TurnLog(a)))
                 \/ session_file = dumps(List(TurnLog(b)))
                 \/ session_file.json = Invalid
              /\ JsonSize(List(TurnLog(a))) = JsonSize(List(TurnLog(b)))
                   => session_file.json # Invalid

\* The lost update: both chats succeeded on the same loaded log with
\* different messages, and the file holds the turn of one only.
C9_Witness ==
    \E p, q \in Procs :
        LET a == wrapper[p]
            b == wrapper[q]
        IN  /\ p # q /\ Succeeded(a) /\ Succeeded(b)
            /\ a.loaded = b.loaded
            /\ a.message # b.message
            /\ session_file = dumps(List(TurnLog(a)))
            /\ Len(session_file.json.items) = Len(b.loaded.items) + 2

\* C10: from a session file that complete turns produced, the list sent to
\* the API starts with a user message and alternates user and assistant.
C10_WindowAlternatesFromUser ==
    \A p \in Procs :
        LET self == wrapper[p]
        IN  self.calls > 0 /\ WellFormed(self.file0) =>
              /\ self.messages[1].role = "user"
              /\ Alternates(self.messages)

====
